---- MODULE Spec2Model ----
(***************************************************************************)
(* serde (de)serialization of the BLS12-381 field and group elements       *)
(* (src/bls12_381/serde_impl.rs).                                          *)
(*                                                                         *)
(* The wire is the byte sequence handed to / obtained from the serde       *)
(* format (`bytes.serialize(s)`, `Vec::<u8>::deserialize(d)`).  The field   *)
(* and curve capabilities the file calls into (PrimeFieldRepr, PrimeField, *)
(* CurveAffine, EncodedPoint) are modelled on a scaled-down instance:      *)
(* narrow bytes and words, small prime moduli, and the curves              *)
(* y^2 = x^3 + 4 over F_7 and y^2 = x^3 + (1 + u) over F_49.               *)
(***************************************************************************)
EXTENDS Integers, Sequences, FiniteSets, TLC

\* ---------------------------------------------------------------- bounds
\* bits in a byte (8 in the program)
ByteBits == 1
\* bytes in a machine word (8 in the program: read_u64 / write_u64)
WordBytes == 1
\* how many bytes longer than the expected size an input may be
MaxExtra == 1
\* the largest integer put below the flag bits of an enumerated input
MaxCoord == 7

\* ------------------------------------------------------------- constants
ERR_LEN == "wrong length of deserialized group element"
ERR_CODE == "deserialized bytes don't encode a group element"
ERR_IO == "error writing to a byte vector"

\* FrRepr([0; 4])
FrWords == 4
\* FqRepr([0; 6])
FqWords == 6

\* scaled-down field characteristics
FrModulus == 13
FqModulus == 7

ByteBase == 2 ^ ByteBits
Byte == 0 .. (ByteBase - 1)
WordBase == ByteBase ^ WordBytes
Word == 0 .. (WordBase - 1)

Fields == {"Fr", "Fq"}
Groups == {"G1", "G2"}

Words(F) == IF F = "Fr" THEN FrWords ELSE FqWords
Modulus(F) == IF F = "Fr" THEN FrModulus ELSE FqModulus
\* width in bytes of the representation of F
FieldBytes(F) == Words(F) * WordBytes

\* Result<T, E>
Ok(v) == [ok |-> TRUE, v |-> v]
Err(e) == [ok |-> FALSE, err |-> e]
\* Option<T>
None == [some |-> FALSE]
Some(v) == [some |-> TRUE, v |-> v]

\* ------------------------------------------------------- byte sequences
RECURSIVE BEValue(_)
\* the integer a byte sequence denotes, most significant byte first
BEValue(bs) ==
    IF Len(bs) = 0 THEN 0
    ELSE BEValue(SubSeq(bs, 1, Len(bs) - 1)) * ByteBase + bs[Len(bs)]

\* the n-byte big-endian encoding of v
IntToBytes(v, n) == [i \in 1 .. n |-> (v \div (ByteBase ^ (n - i))) % ByteBase]

\* all byte sequences of length n
BytesOfLen(n) == [1 .. n -> Byte]

\* -------------------------------------------------- PrimeFieldRepr (repr)
\* A repr is a sequence of words, least significant word first.
ReprValue(r) ==
    LET RECURSIVE Val(_)
        Val(k) == IF k = 0 THEN 0 ELSE Val(k - 1) + r[k] * (WordBase ^ (k - 1))
    IN Val(Len(r))

ReprOf(v, n) == [k \in 1 .. n |-> (v \div (WordBase ^ (k - 1))) % WordBase]

ZeroRepr(F) == [k \in 1 .. Words(F) |-> 0]

\* write_u64::<BigEndian>
WordToBytes(w) == [j \in 1 .. WordBytes |-> (w \div (ByteBase ^ (WordBytes - j))) % ByteBase]

\* PrimeFieldRepr::write_be into a Vec<u8>: the words from the most
\* significant to the least, each big-endian.  Writing to a Vec cannot fail.
write_be(r) ==
    LET n == Len(r)
    IN Ok([k \in 1 .. n * WordBytes |->
              WordToBytes(r[n - ((k - 1) \div WordBytes)])[((k - 1) % WordBytes) + 1]])

\* PrimeFieldRepr::read_be from a byte slice used as a reader: fills the words
\* from the most significant down, taking WordBytes bytes for each; a word
\* that cannot be read whole is an UnexpectedEof.  Bytes left in the reader
\* after the last word are not looked at.
read_be(f, bytes) ==
    LET n == Len(f)
        filled == IF Len(bytes) \div WordBytes < n THEN Len(bytes) \div WordBytes ELSE n
        word(k) == BEValue(SubSeq(bytes, (n - k) * WordBytes + 1, (n - k + 1) * WordBytes))
        r == [k \in 1 .. n |-> IF k > n - filled THEN word(k) ELSE f[k]]
    IN [ok |-> filled = n, repr |-> r]

\* ------------------------------------------------------------ PrimeField
\* A field element is held in Montgomery form: the residue v * R mod p,
\* R = 2^(width of the repr).
MontR(F) == (WordBase ^ Words(F)) % Modulus(F)
MontRInv(F) == CHOOSE i \in 1 .. (Modulus(F) - 1) : (i * MontR(F)) % Modulus(F) = 1

FieldElems(F) == 0 .. (Modulus(F) - 1)

\* PrimeField::from_repr: rejects a repr that is not below the modulus
from_repr(F, r) ==
    IF ReprValue(r) < Modulus(F)
    THEN Ok((ReprValue(r) * MontR(F)) % Modulus(F))
    ELSE Err("NotInField")

\* PrimeField::into_repr: the canonical integer of the element
into_repr(F, e) == ReprOf((e * MontRInv(F)) % Modulus(F), Words(F))

\* the element denoting the integer v
FieldOf(F, v) == ((v % Modulus(F)) * MontR(F)) % Modulus(F)
FieldVal(F, e) == (e * MontRInv(F)) % Modulus(F)

\* ------------------------------------------ coordinate fields Fq and Fq2
\* The coordinates of G1 are Fq elements; those of G2 are Fq2 elements
\* c0 + c1 * u with u^2 = -1, held as records of two Fq elements.
FqAdd(a, b) == (a + b) % FqModulus
FqNeg(a) == (FqModulus - a) % FqModulus
\* Montgomery multiplication
FqMul(a, b) == (a * b * MontRInv("Fq")) % FqModulus

CElems(g) ==
    IF g = "G1" THEN FieldElems("Fq")
    ELSE [c0 : FieldElems("Fq"), c1 : FieldElems("Fq")]

\* the coordinate-field element of the integer k
CConst(g, k) ==
    IF g = "G1" THEN FieldOf("Fq", k)
    ELSE [c0 |-> FieldOf("Fq", k), c1 |-> FieldOf("Fq", 0)]

CAdd(g, a, b) ==
    IF g = "G1" THEN FqAdd(a, b)
    ELSE [c0 |-> FqAdd(a.c0, b.c0), c1 |-> FqAdd(a.c1, b.c1)]

CNeg(g, a) ==
    IF g = "G1" THEN FqNeg(a)
    ELSE [c0 |-> FqNeg(a.c0), c1 |-> FqNeg(a.c1)]

CMul(g, a, b) ==
    IF g = "G1" THEN FqMul(a, b)
    ELSE [c0 |-> FqAdd(FqMul(a.c0, b.c0), FqNeg(FqMul(a.c1, b.c1))),
          c1 |-> FqAdd(FqMul(a.c0, b.c1), FqMul(a.c1, b.c0))]

\* Ord: by canonical integer; for Fq2 the c1 parts decide first
CGreater(g, a, b) ==
    IF g = "G1" THEN FieldVal("Fq", a) > FieldVal("Fq", b)
    ELSE \/ FieldVal("Fq", a.c1) > FieldVal("Fq", b.c1)
         \/ /\ a.c1 = b.c1
            /\ FieldVal("Fq", a.c0) > FieldVal("Fq", b.c0)

CInv(g, z) == CHOOSE i \in CElems(g) : CMul(g, i, z) = CConst(g, 1)

\* SqrtField::sqrt
CSqrt(g, v) ==
    IF \E y \in CElems(g) : CMul(g, y, y) = v
    THEN Some(CHOOSE y \in CElems(g) : CMul(g, y, y) = v)
    ELSE None

\* the curve coefficient b of y^2 = x^3 + b
CoeffB(g) ==
    IF g = "G1" THEN CConst("G1", 4)
    ELSE [c0 |-> FieldOf("Fq", 1), c1 |-> FieldOf("Fq", 1)]

\* ------------------------------------------------------- curve points
\* CurveAffine::zero
AffineZero(g) == [x |-> CConst(g, 0), y |-> CConst(g, 1), infinity |-> TRUE]
\* CurveProjective::zero
ProjectiveZero(g) == [x |-> CConst(g, 0), y |-> CConst(g, 1), z |-> CConst(g, 0)]

Cube(g, a) == CMul(g, a, CMul(g, a, a))

\* is_on_curve
OnCurve(g, x, y) == CMul(g, y, y) = CAdd(g, Cube(g, x), CoeffB(g))

\* is_in_correct_subgroup_assuming_on_curve: r * P = O for the group order
\* r = 3.  For a finite P = (x, y): y = 0 gives a point of order 2; otherwise
\* 3P = O iff 2P = -P iff the tangent slope s = 3x^2 / (2y) has s^2 = 3x,
\* that is 9 x^4 = 12 x y^2.
InSubgroup(g, p) ==
    \/ p.infinity
    \/ /\ p.y # CConst(g, 0)
       /\ CMul(g, CConst(g, 9), CMul(g, p.x, Cube(g, p.x)))
            = CMul(g, CConst(g, 12), CMul(g, p.x, CMul(g, p.y, p.y)))

\* the valid affine group elements
AffinePoints(g) ==
    {AffineZero(g)} \cup
    {p \in [x : CElems(g), y : CElems(g), infinity : {FALSE}] :
        OnCurve(g, p.x, p.y) /\ InSubgroup(g, p)}

\* CurveAffine::into_projective
into_projective(g, a) ==
    IF a.infinity THEN ProjectiveZero(g)
    ELSE [x |-> a.x, y |-> a.y, z |-> CConst(g, 1)]

\* CurveProjective::into_affine (Jacobian coordinates: x = X / Z^2, y = Y / Z^3)
into_affine(g, p) ==
    IF p.z = CConst(g, 0) THEN AffineZero(g)
    ELSE LET zinv == CInv(g, p.z)
             zinv2 == CMul(g, zinv, zinv)
         IN [x |-> CMul(g, p.x, zinv2),
             y |-> CMul(g, p.y, CMul(g, zinv2, zinv)),
             infinity |-> FALSE]

\* the valid projective group elements: every scaling of every affine one,
\* and forms of the point at infinity (z = 0) that arithmetic can leave
ProjectivePoints(g) ==
    {ProjectiveZero(g)} \cup
    {[x |-> CConst(g, j), y |-> CConst(g, k), z |-> CConst(g, 0)] : j \in 0 .. 2, k \in 1 .. 2} \cup
    {[x |-> CMul(g, a.x, CMul(g, z, z)), y |-> CMul(g, a.y, Cube(g, z)), z |-> z] :
        a \in {q \in AffinePoints(g) : ~q.infinity},
        z \in {w \in CElems(g) : w # CConst(g, 0)}}

\* PartialEq for the projective form
ProjectiveEq(g, p, q) ==
    IF p.z = CConst(g, 0) THEN q.z = CConst(g, 0)
    ELSE IF q.z = CConst(g, 0) THEN FALSE
    ELSE LET z1 == CMul(g, p.z, p.z)
             z2 == CMul(g, q.z, q.z)
         IN /\ CMul(g, p.x, z2) = CMul(g, q.x, z1)
            /\ CMul(g, p.y, CMul(g, z2, q.z)) = CMul(g, q.y, CMul(g, z1, p.z))

\* ------------------------------------------------ EncodedPoint (compressed)
\* C::Compressed::size()
CompressedSize(g) == IF g = "G1" THEN FieldBytes("Fq") ELSE 2 * FieldBytes("Fq")

\* C::Compressed::empty()
EmptyCompressed(g) == [i \in 1 .. CompressedSize(g) |-> 0]

\* The three most significant bits of the buffer are flags:
\* 4 = compressed form, 2 = point at infinity, 1 = y is the greater root.
\* They lie in the first coordinate of the buffer, above its integer.
FlagUnit == 2 ^ (FieldBytes("Fq") * ByteBits - 3)
FlagHead(bytes) == SubSeq(bytes, 1, FieldBytes("Fq"))
FlagsOf(bytes) == BEValue(FlagHead(bytes)) \div FlagUnit
BelowFlags(bytes) == BEValue(FlagHead(bytes)) % FlagUnit
WithFlags(bytes, flags) ==
    IntToBytes(BelowFlags(bytes) + flags * FlagUnit, FieldBytes("Fq"))
        \o SubSeq(bytes, FieldBytes("Fq") + 1, Len(bytes))

\* the big-endian bytes of the x coordinate (for G2: c1, then c0)
CoordBytes(g, x) ==
    IF g = "G1" THEN write_be(into_repr("Fq", x)).v
    ELSE write_be(into_repr("Fq", x.c1)).v \o write_be(into_repr("Fq", x.c0)).v

\* CurveAffine::into_compressed
into_compressed(g, a) ==
    IF a.infinity THEN WithFlags(EmptyCompressed(g), 4 + 2)
    ELSE WithFlags(CoordBytes(g, a.x),
                   4 + (IF CGreater(g, a.y, CNeg(g, a.y)) THEN 1 ELSE 0))

\* the x coordinate held in a buffer whose flag bits are cleared
CoordOfBytes(g, bytes) ==
    LET n == FieldBytes("Fq")
        hi == read_be(ZeroRepr("Fq"), SubSeq(bytes, 1, n))
        lo == read_be(ZeroRepr("Fq"), SubSeq(bytes, n + 1, 2 * n))
    IN IF g = "G1"
       THEN from_repr("Fq", hi.repr)
       ELSE IF from_repr("Fq", lo.repr).ok /\ from_repr("Fq", hi.repr).ok
            THEN Ok([c0 |-> from_repr("Fq", lo.repr).v, c1 |-> from_repr("Fq", hi.repr).v])
            ELSE Err("NotInField")

\* get_point_from_x: the root of x^3 + b that is the greater one iff asked
get_point_from_x(g, x, greatest) ==
    LET r == CSqrt(g, CAdd(g, Cube(g, x), CoeffB(g)))
    IN IF ~r.some THEN None
       ELSE LET y == r.v
                negy == CNeg(g, y)
                lt == CGreater(g, negy, y)
            IN Some([x |-> x,
                     y |-> IF lt # greatest THEN y ELSE negy,
                     infinity |-> FALSE])

\* EncodedPoint::into_affine of a compressed buffer
decompress(g, bytes) ==
    LET flags == FlagsOf(bytes)
    IN IF flags < 4 THEN Err("UnexpectedCompressionMode")
       ELSE IF (flags \div 2) % 2 = 1
       THEN IF \A i \in 1 .. Len(bytes) : WithFlags(bytes, flags % 2)[i] = 0
            THEN Ok(AffineZero(g))
            ELSE Err("UnexpectedInformation")
       ELSE LET x == CoordOfBytes(g, WithFlags(bytes, 0))
            IN IF ~x.ok THEN Err("CoordinateDecodingError")
               ELSE LET p == get_point_from_x(g, x.v, flags % 2 = 1)
                    IN IF ~p.some THEN Err("NotOnCurve")
                       ELSE IF ~InSubgroup(g, p.v) THEN Err("NotInSubgroup")
                       ELSE Ok(p.v)

\* ------------------------------------------------------- serde_impl.rs
\* as serialize_affine, but taking the uncompressed form of the point
serialize_affine_uncompressed(g, c) ==
    IF c.infinity
    THEN Ok(WithFlags(EmptyCompressed(g) \o EmptyCompressed(g), 2))
    ELSE Ok(CoordBytes(g, c.x) \o CoordBytes(g, c.y))

\* fn serialize_affine: the compressed buffer, handed to the format as bytes
serialize_affine(g, c) == Ok(into_compressed(g, c))

\* as deserialize_affine, but rejecting only inputs that are too short and
\* copying the leading bytes of a longer one
deserialize_affine_prefix(g, bytes) ==
    IF Len(bytes) < CompressedSize(g)
    THEN [res |-> Err(ERR_LEN), steps |-> <<"len">>,
          compressed |-> None, inner |-> None]
    ELSE LET compressed == [i \in 1 .. CompressedSize(g) |-> bytes[i]]
             r == decompress(g, compressed)
         IN [res |-> IF r.ok THEN Ok(r.v) ELSE Err(ERR_CODE),
             steps |-> <<"len", "empty", "copy_from_slice", "into_affine">>,
             compressed |-> Some(compressed), inner |-> Some(r)]

\* as deserialize_affine, but handing the decompression routine's own error on
deserialize_affine_reason(g, bytes) ==
    IF Len(bytes) # CompressedSize(g)
    THEN [res |-> Err(ERR_LEN), steps |-> <<"len">>,
          compressed |-> None, inner |-> None]
    ELSE LET compressed == [i \in 1 .. CompressedSize(g) |-> bytes[i]]
             r == decompress(g, compressed)
         IN [res |-> r,
             steps |-> <<"len", "empty", "copy_from_slice", "into_affine">>,
             compressed |-> Some(compressed), inner |-> Some(r)]

\* fn deserialize_affine.  res is the returned Result; steps, compressed and
\* inner record what the call did on the way: the statements it ran, the
\* buffer it filled and what the decompression routine returned to it.
\* copy_from_slice panics when the lengths differ.
deserialize_affine(g, bytes) ==
    IF Len(bytes) # CompressedSize(g)
    THEN [res |-> Err(ERR_LEN), steps |-> <<"len">>,
          compressed |-> None, inner |-> None]
    ELSE LET compressed == [i \in 1 .. CompressedSize(g) |-> bytes[i]]
             r == decompress(g, compressed)
         IN [res |-> IF r.ok THEN Ok(r.v) ELSE Err(ERR_CODE),
             steps |-> <<"len", "empty", "copy_from_slice", "into_affine">>,
             compressed |-> Some(compressed), inner |-> Some(r)]

\* as serialize_prime_field_repr, but with write_le: the least significant
\* byte first
serialize_prime_field_repr_le(f) ==
    LET w == write_be(f)
    IN IF w.ok THEN Ok([i \in 1 .. Len(w.v) |-> w.v[Len(w.v) + 1 - i]]) ELSE Err(ERR_IO)

\* fn serialize_prime_field_repr
serialize_prime_field_repr(f) ==
    LET w == write_be(f)
    IN IF w.ok THEN Ok(w.v) ELSE Err(ERR_IO)

\* fn deserialize_prime_field_repr
deserialize_prime_field_repr(f, bytes) ==
    LET r == read_be(f, bytes)
    IN IF r.ok THEN Ok(r.repr) ELSE Err(ERR_IO)

\* impl Serialize / Deserialize for G1Affine and G2Affine
Affine_serialize(g, c) == serialize_affine(g, c)
Affine_deserialize(g, bytes) == deserialize_affine(g, bytes)

\* as Projective_deserialize, but building the projective point from the
\* coordinates alone, with z = 1 also for the point at infinity
Projective_deserialize_finite(g, bytes) ==
    LET d == deserialize_affine(g, bytes)
    IN [d EXCEPT !.res = IF d.res.ok
                         THEN Ok([x |-> d.res.v.x, y |-> d.res.v.y, z |-> CConst(g, 1)])
                         ELSE d.res]

\* impl Serialize / Deserialize for G1 and G2
Projective_serialize(g, p) == Affine_serialize(g, into_affine(g, p))
Projective_deserialize(g, bytes) ==
    LET d == Affine_deserialize(g, bytes)
    IN [d EXCEPT !.res = IF d.res.ok THEN Ok(into_projective(g, d.res.v)) ELSE d.res]

\* impl Serialize / Deserialize for FrRepr and FqRepr
Repr_serialize(F, r) == serialize_prime_field_repr(r)
Repr_deserialize(F, bytes) == deserialize_prime_field_repr(ZeroRepr(F), bytes)

\* as Field_deserialize, but wrapping the repr as it is (Fr(repr)), without the
\* conversion to the internal form
Field_deserialize_unconverted(F, bytes) ==
    LET r == deserialize_prime_field_repr(ZeroRepr(F), bytes)
    IN IF ~r.ok THEN r
       ELSE IF from_repr(F, r.v).ok THEN Ok(ReprValue(r.v))
       ELSE Err(ERR_CODE)

\* as Field_deserialize, but reducing an integer that is not below the modulus
Field_deserialize_reduced(F, bytes) ==
    LET r == deserialize_prime_field_repr(ZeroRepr(F), bytes)
    IN IF ~r.ok THEN r ELSE Ok(FieldOf(F, ReprValue(r.v)))

\* impl Serialize / Deserialize for Fr and Fq
Field_serialize(F, e) == Repr_serialize(F, into_repr(F, e))
Field_deserialize(F, bytes) ==
    LET r == Repr_deserialize(F, bytes)
    IN IF ~r.ok THEN r
       ELSE IF from_repr(F, r.v).ok THEN Ok(from_repr(F, r.v).v)
       ELSE Err(ERR_CODE)

\* ----------------------------------------------------------- the inputs
Kinds == {"G1", "G1Affine", "G2", "G2Affine", "Fr", "FrRepr", "Fq", "FqRepr"}
GroupKinds == {"G1", "G1Affine", "G2", "G2Affine"}
FieldKinds == {"Fr", "FrRepr", "Fq", "FqRepr"}

GroupOf(k) == IF k \in {"G1", "G1Affine"} THEN "G1" ELSE "G2"
FieldOfKind(k) == IF k \in {"Fr", "FrRepr"} THEN "Fr" ELSE "Fq"

\* the number of bytes the kind's decoder expects
ExpectedSize(k) ==
    IF k \in GroupKinds THEN CompressedSize(GroupOf(k)) ELSE FieldBytes(FieldOfKind(k))

Min(a, b) == IF a < b THEN a ELSE b

\* The integers enumerated for an n-byte buffer: every value of the three top
\* bits over every integer up to MaxCoord below them, and the all-ones buffer.
InputValues(n) ==
    IF n * ByteBits <= 3 THEN 0 .. (2 ^ (n * ByteBits) - 1)
    ELSE {f * (2 ^ (n * ByteBits - 3)) + x :
             f \in 0 .. 7, x \in 0 .. Min(MaxCoord, 2 ^ (n * ByteBits - 3) - 1)}
         \cup {2 ^ (n * ByteBits) - 1}

\* inputs of the expected size
SizedInputs(k) ==
    IF k \in {"G2", "G2Affine"}
    THEN {IntToBytes(a, FieldBytes("Fq")) \o IntToBytes(b, FieldBytes("Fq")) :
             a \in InputValues(FieldBytes("Fq")),
             b \in (0 .. MaxCoord) \cup {2 ^ (FieldBytes("Fq") * ByteBits) - 1}}
    ELSE {IntToBytes(v, ExpectedSize(k)) : v \in InputValues(ExpectedSize(k))}

\* shorter inputs (every proper prefix) and longer ones (up to MaxExtra more bytes)
ShortInputs(k) ==
    {SubSeq(c, 1, n) : c \in SizedInputs(k), n \in 0 .. (ExpectedSize(k) - 1)}
LongInputs(k) ==
    {c \o e : c \in SizedInputs(k), e \in UNION {BytesOfLen(m) : m \in 1 .. MaxExtra}}

RawInputs(k) == SizedInputs(k) \cup ShortInputs(k) \cup LongInputs(k)

\* the values of each type
Values(k) ==
    CASE k = "G1Affine" -> AffinePoints("G1")
      [] k = "G2Affine" -> AffinePoints("G2")
      [] k = "G1" -> ProjectivePoints("G1")
      [] k = "G2" -> ProjectivePoints("G2")
      [] k \in {"Fr", "Fq"} -> FieldElems(k)
      [] k = "FrRepr" -> {ReprOf(v, FrWords) : v \in InputValues(FieldBytes("Fr"))}
      [] k = "FqRepr" -> {ReprOf(v, FqWords) : v \in InputValues(FieldBytes("Fq"))}

\* ------------------------------------------------------------ the state
VARIABLES
    kind,        \* the type being serialized or deserialized
    pc,          \* "value": a value to serialize; "wire": bytes to deserialize; "done"
    value,       \* Option: the value handed to serialize
    ser,         \* Option: the Result serialize returned
    wire,        \* the bytes handed to deserialize
    result,      \* Option: the Result deserialize returned
    steps,       \* the statements deserialize_affine ran
    compressed,  \* Option: the compressed buffer deserialize_affine filled
    inner        \* Option: what the decompression routine returned

vars == <<kind, pc, value, ser, wire, result, steps, compressed, inner>>

Init ==
    /\ kind \in Kinds
    /\ \/ /\ pc = "value"
          /\ value \in {Some(v) : v \in Values(kind)}
          /\ wire = <<>>
       \/ /\ pc = "wire"
          /\ value = None
          /\ wire \in RawInputs(kind)
    /\ ser = None
    /\ result = None
    /\ steps = <<>>
    /\ compressed = None
    /\ inner = None

\* serialize returned r
Serialized(r) ==
    /\ ser' = Some(r)
    /\ wire' = IF r.ok THEN r.v ELSE wire
    /\ pc' = IF r.ok THEN "wire" ELSE "done"
    /\ UNCHANGED <<kind, value, result, steps, compressed, inner>>

\* a group deserialize returned d
GroupDeserialized(d) ==
    /\ result' = Some(d.res)
    /\ steps' = d.steps
    /\ compressed' = d.compressed
    /\ inner' = d.inner
    /\ pc' = "done"
    /\ UNCHANGED <<kind, value, ser, wire>>

\* a field deserialize returned r
FieldDeserialized(r) ==
    /\ result' = Some(r)
    /\ pc' = "done"
    /\ UNCHANGED <<kind, value, ser, wire, steps, compressed, inner>>

Serialize_G1 ==
    pc = "value" /\ kind = "G1" /\ Serialized(Projective_serialize("G1", value.v))
Deserialize_G1 ==
    pc = "wire" /\ kind = "G1" /\ GroupDeserialized(Projective_deserialize("G1", wire))
Serialize_G1Affine ==
    pc = "value" /\ kind = "G1Affine" /\ Serialized(Affine_serialize("G1", value.v))
Deserialize_G1Affine ==
    pc = "wire" /\ kind = "G1Affine" /\ GroupDeserialized(Affine_deserialize("G1", wire))
Serialize_G2 ==
    pc = "value" /\ kind = "G2" /\ Serialized(Projective_serialize("G2", value.v))
Deserialize_G2 ==
    pc = "wire" /\ kind = "G2" /\ GroupDeserialized(Projective_deserialize("G2", wire))
Serialize_G2Affine ==
    pc = "value" /\ kind = "G2Affine" /\ Serialized(Affine_serialize("G2", value.v))
Deserialize_G2Affine ==
    pc = "wire" /\ kind = "G2Affine" /\ GroupDeserialized(Affine_deserialize("G2", wire))
Serialize_Fr ==
    pc = "value" /\ kind = "Fr" /\ Serialized(Field_serialize("Fr", value.v))
Deserialize_Fr ==
    pc = "wire" /\ kind = "Fr" /\ FieldDeserialized(Field_deserialize("Fr", wire))
Serialize_FrRepr ==
    pc = "value" /\ kind = "FrRepr" /\ Serialized(Repr_serialize("Fr", value.v))
Deserialize_FrRepr ==
    pc = "wire" /\ kind = "FrRepr" /\ FieldDeserialized(Repr_deserialize("Fr", wire))
Serialize_Fq ==
    pc = "value" /\ kind = "Fq" /\ Serialized(Field_serialize("Fq", value.v))
Deserialize_Fq ==
    pc = "wire" /\ kind = "Fq" /\ FieldDeserialized(Field_deserialize("Fq", wire))
Serialize_FqRepr ==
    pc = "value" /\ kind = "FqRepr" /\ Serialized(Repr_serialize("Fq", value.v))
Deserialize_FqRepr ==
    pc = "wire" /\ kind = "FqRepr" /\ FieldDeserialized(Repr_deserialize("Fq", wire))

Next ==
    \/ Serialize_G1 \/ Deserialize_G1
    \/ Serialize_G1Affine \/ Deserialize_G1Affine
    \/ Serialize_G2 \/ Deserialize_G2
    \/ Serialize_G2Affine \/ Deserialize_G2Affine
    \/ Serialize_Fr \/ Deserialize_Fr
    \/ Serialize_FrRepr \/ Deserialize_FrRepr
    \/ Serialize_Fq \/ Deserialize_Fq
    \/ Serialize_FqRepr \/ Deserialize_FqRepr

Spec == Init /\ [][Next]_vars

\* ------------------------------------------------------------ properties
Decoded == pc = "done" /\ result.some
Encoded == pc # "value" /\ value.some /\ ser.some

IsInfinity(k, v) == IF k \in {"G1", "G2"} THEN v.z = CConst(GroupOf(k), 0) ELSE v.infinity

\* C1: a field element of Fr or Fq, or its canonical representation, that is
\* serialized and then deserialized comes back: both calls succeed and the
\* value returned equals the original.
C1_FieldRoundTrip ==
    (Decoded /\ value.some /\ kind \in FieldKinds) =>
        /\ ser.v.ok
        /\ result.v.ok
        /\ result.v.v = value.v

C1_Witness ==
    /\ Decoded /\ kind = "Fr" /\ value = Some(FieldOf("Fr", 12))
    /\ result.v = Ok(FieldOf("Fr", 12))

\* C2: a group element of G1 or G2, affine or projective, that is serialized
\* and then deserialized comes back: an affine point as itself, a projective
\* point as the projective form of its affine normal form, which compares
\* equal to the original.
C2_GroupRoundTrip ==
    (Decoded /\ value.some /\ kind \in GroupKinds) =>
        /\ ser.v.ok
        /\ result.v.ok
        /\ IF kind \in {"G1Affine", "G2Affine"}
           THEN result.v.v = value.v
           ELSE /\ result.v.v = into_projective(GroupOf(kind), into_affine(GroupOf(kind), value.v))
                /\ ProjectiveEq(GroupOf(kind), result.v.v, value.v)

C2_Witness ==
    /\ Decoded /\ kind = "G2" /\ value.some
    /\ value.v.z \notin {CConst("G2", 0), CConst("G2", 1)}
    /\ result.v.ok
    /\ result.v.v # value.v

\* C3: a group decode of bytes whose length is not the group's compressed size
\* returns the length error, having neither filled the compressed buffer nor
\* called the decompression routine.
C3_GroupLengthRejection ==
    (Decoded /\ kind \in GroupKinds /\ Len(wire) # CompressedSize(GroupOf(kind))) =>
        /\ result.v = Err(ERR_LEN)
        /\ compressed = None
        /\ inner = None
        /\ steps = <<"len">>

C3_Witness ==
    /\ Decoded /\ kind = "G2Affine"
    /\ Len(wire) = CompressedSize("G2") + 1
    /\ decompress("G2", SubSeq(wire, 1, CompressedSize("G2"))).ok
    /\ result.v = Err(ERR_LEN)

\* C4: a field decode (Fr, Fq, FrRepr, FqRepr) of bytes whose length is not the
\* field's fixed width, shorter or longer, fails with the length error.
C4_FieldLengthRejection ==
    (Decoded /\ kind \in FieldKinds /\ Len(wire) # ExpectedSize(kind)) =>
        /\ ~result.v.ok
        /\ result.v.err = ERR_LEN

\* C5: a group decode of bytes of the compressed size that the decompression
\* routine refuses returns the one error ERR_CODE, whatever the routine's
\* reason, and no point.
C5_GarbageRejection ==
    (Decoded /\ kind \in GroupKinds /\ Len(wire) = CompressedSize(GroupOf(kind))
        /\ ~decompress(GroupOf(kind), wire).ok) =>
        /\ inner.some
        /\ ~inner.v.ok
        /\ result.v = Err(ERR_CODE)

C5_Witness ==
    /\ Decoded /\ kind = "G2" /\ Len(wire) = CompressedSize("G2")
    /\ inner.some /\ ~inner.v.ok /\ inner.v.err = "NotInSubgroup"
    /\ result.v = Err(ERR_CODE)

C7_DistinguishableFailures ==
    (Decoded /\ ~result.v.ok) =>
        /\ (kind \in GroupKinds /\ Len(wire) # ExpectedSize(kind)) => result.v.err = ERR_LEN
        /\ (kind \in GroupKinds /\ Len(wire) = ExpectedSize(kind)) => result.v.err = ERR_CODE
        /\ (kind \in {"Fr", "Fq"} /\ Len(wire) = ExpectedSize(kind)) =>
               result.v.err \notin {ERR_LEN, ERR_CODE}

\* the n-byte sequence that is zero but for a final 1
OneBytes(n) == [i \in 1 .. n |-> IF i = n THEN 1 ELSE 0]

\* C8: encoding a field element succeeds and gives exactly the field's width in
\* bytes, the canonical integer most significant byte first; the Fr element 1
\* gives zero bytes and a final 1, and those bytes decode to the Fr element 1.
C8_FixedWidthBigEndian ==
    /\ (Encoded /\ kind \in {"Fr", "Fq"}) =>
          /\ ser.v.ok
          /\ Len(wire) = FieldBytes(kind)
          /\ BEValue(wire) = FieldVal(kind, value.v)
          /\ (kind = "Fr" /\ value.v = FieldOf("Fr", 1)) => wire = OneBytes(FieldBytes("Fr"))
    /\ (Decoded /\ kind = "Fr" /\ wire = OneBytes(FieldBytes("Fr"))) =>
          result.v = Ok(FieldOf("Fr", 1))

C8_Witness ==
    /\ Decoded /\ kind = "Fr" /\ value = Some(FieldOf("Fr", 1))
    /\ wire = OneBytes(FieldBytes("Fr"))
    /\ result.v = Ok(FieldOf("Fr", 1))

\* C9: the point at infinity, affine or projective, of either group encodes to
\* bytes of the compressed size that decode to the point at infinity, and no
\* finite point encodes to the bytes the point at infinity encodes to.
C9_InfinityRoundTrip ==
    (Encoded /\ kind \in GroupKinds) =>
        IF IsInfinity(kind, value.v)
        THEN /\ ser.v.ok
             /\ Len(wire) = CompressedSize(GroupOf(kind))
             /\ Decoded => (result.v.ok /\ IsInfinity(kind, result.v.v))
        ELSE wire # serialize_affine(GroupOf(kind), AffineZero(GroupOf(kind))).v

C9_Witness ==
    /\ Decoded /\ kind = "G1" /\ value.some
    /\ IsInfinity("G1", value.v) /\ value.v # ProjectiveZero("G1")
    /\ result.v = Ok(ProjectiveZero("G1"))

\* the bytes a decoded value of kind k encodes to
Reencoded(k, v) ==
    CASE k = "Fr" -> Field_serialize("Fr", v)
      [] k = "Fq" -> Field_serialize("Fq", v)
      [] k = "FrRepr" -> Repr_serialize("Fr", v)
      [] k = "FqRepr" -> Repr_serialize("Fq", v)

\* C10: bytes that a field decode accepts are the bytes its result encodes to.
C10_CanonicalFieldDecoding ==
    (Decoded /\ kind \in FieldKinds /\ result.v.ok) =>
        Reencoded(kind, result.v.v) = Ok(wire)

====
